---- MODULE Spec2Model ----
(***************************************************************************)
(* A model of the IRV tabulation engine of open-rcv:                       *)
(*   openrcv/counting.py  get_majority, get_winner, get_lowest, Tabulator  *)
(*   openrcv/models.py    make_candidates, ContestInput                    *)
(*   openrcv/streams.py   ListResource (the ballot backing store)          *)
(*                                                                         *)
(* Python values are represented as follows.                               *)
(*   ballot (weight, choices)   record [weight, choices], choices a tuple  *)
(*   dict totals                function from candidate number to total    *)
(*   None (winner)              0 (candidate numbers start at 1)           *)
(*   None (tied_last_place)     {} (a recorded tie has >= 2 members)       *)
(*   None (last_round)          0 (a finished count has >= 1 round)        *)
(*   round_results.elected      <<>> until set to [winner]                 *)
(***************************************************************************)
EXTENDS Integers, Sequences, FiniteSets, TLC

\* Bounds of the model.
MaxCandidates == 3
MaxBallots == 3
MaxWeight == 2
MaxChoices == 2

None == 0

\* Candidate identifiers that may appear on a ballot.  Identifiers above the
\* contest's candidate count are "unknown" to the contest.
ChoiceIds == 1..MaxCandidates

\* Ranked choice lists: no identifier repeated.
ChoiceSeqs ==
    UNION { { s \in [1..n -> ChoiceIds] : \A i, j \in 1..n : i # j => s[i] # s[j] }
            : n \in 0..MaxChoices }

Ballots == [weight : 0..MaxWeight, choices : ChoiceSeqs]

BallotLists == UNION { [1..n -> Ballots] : n \in 0..MaxBallots }

VARIABLES
    candidates,         \* len(contest.candidates)
    seq,                \* ListResource.seq backing contest.ballots_resource
    pc,                 \* position inside Tabulator.count
    candidate_numbers,  \* local of count: the eligible set
    rounds,             \* local of count: list of round results
    outcome,            \* local of count: the ContestOutcome
    threshold,          \* local of get_winner, as last computed
    passes,             \* number of reading() scopes entered on the ballots
    error               \* exception that left count, or "none"

\* Tabulator.count_ballots in steps, and a repeated invocation.
VARIABLES
    pass_totals,        \* local totals of count_ballots while the pass is open
    open_reads,         \* reading() scopes on the ballots entered and not left
    first               \* what the first of two invocations returned

\* A stream resource of streams.py and one reading() or writing() scope on it.
VARIABLES
    kind,               \* the resource class
    store,              \* items of the backing store (list, file lines, text)
    fpos,               \* items before the position of the iterator or file
    handle,             \* file handle acquired by the resource's scopes
    tempctx,            \* the temp_stream_resource() scope around the resource
    scope,              \* "idle", "reading" or "writing"
    last,               \* which scope was entered or attempted last
    gen,                \* the tracked() generator of the reading scope
    yielded,            \* items the consumer received in this reading scope
    written,            \* items written to the sink in this writing scope
    exc                 \* the exception that left the last scope

\* normalize_ballots(source, target) on list resources; source.seq is seq.
VARIABLES
    npc,                \* position inside normalize_ballots
    target,             \* target.seq
    choices_dict,       \* local: choices -> cumulative weight
    sorted_choices,     \* local: sorted(choices_dict.keys())
    same                \* source and target are one resource: target holds
                        \* the list, seq keeps its contents as at the call

pvars == <<pass_totals, open_reads, first>>

tvars == <<candidates, seq, pc, candidate_numbers, rounds, outcome,
           threshold, passes, error, pvars>>

svars == <<kind, store, fpos, handle, tempctx, scope, last, gen, yielded, written, exc>>

nvars == <<npc, target, choices_dict, sorted_choices, same>>

vars == <<candidates, seq, pc, candidate_numbers, rounds, outcome,
          threshold, passes, error, pass_totals, open_reads, first,
          kind, store, fpos, handle, tempctx, scope, last, gen, yielded, written, exc,
          npc, target, choices_dict, sorted_choices, same>>

----------------------------------------------------------------------------
\* Pure functions of counting.py and models.py

\* A candidate set kept from one invocation of count to the next.
make_candidates_retained(candidate_count) ==
    IF rounds = <<>> THEN 1..candidate_count ELSE candidate_numbers

\* models.make_candidates: range(1, candidate_count + 1)
make_candidates(candidate_count) == 1..candidate_count

\* sum(totals.values())
RECURSIVE SumOver(_, _)
SumOver(totals, keys) ==
    IF keys = {} THEN 0
    ELSE LET c == CHOOSE k \in keys : TRUE
         IN  totals[c] + SumOver(totals, keys \ {c})

SumTotals(totals) == SumOver(totals, DOMAIN totals)

\* The orders in which a dict with the given keys can be iterated.
ItemOrders(keys) ==
    { o \in [1..Cardinality(keys) -> keys] :
        \A i, j \in 1..Cardinality(keys) : i # j => o[i] # o[j] }

get_majority_floor(total) == total \div 2

get_majority_half_up(total) == (total + 1) \div 2

get_majority(total) == (total \div 2) + 1

\* A scan that asks for strictly more than the threshold.
RECURSIVE winner_scan_strict(_, _, _)
winner_scan_strict(totals, thr, order) ==
    IF order = <<>> THEN None
    ELSE IF totals[Head(order)] > thr THEN Head(order)
    ELSE winner_scan_strict(totals, thr, Tail(order))

\* The loop of get_winner over totals.items() taken in the given order.
RECURSIVE winner_scan(_, _, _)
winner_scan(totals, thr, order) ==
    IF order = <<>> THEN None
    ELSE IF totals[Head(order)] >= thr THEN Head(order)
    ELSE winner_scan(totals, thr, Tail(order))

\* A threshold of the whole total instead of a majority of it.
get_winner_whole_total(totals, order) ==
    winner_scan(totals, SumTotals(totals), order)

get_winner(totals, order) ==
    winner_scan(totals, get_majority(SumTotals(totals)), order)

\* The loop of get_lowest; acc is [lowest_total, lowest_candidates].
RECURSIVE lowest_scan(_, _, _)
lowest_scan(totals, acc, order) ==
    IF order = <<>> THEN acc.lowest_candidates
    ELSE LET candidate == Head(order)
             total == totals[candidate]
             next == IF total < acc.lowest_total
                       THEN [lowest_total |-> total, lowest_candidates |-> {candidate}]
                     ELSE IF total = acc.lowest_total
                       THEN [acc EXCEPT !.lowest_candidates = @ \cup {candidate}]
                     ELSE acc
         IN  lowest_scan(totals, next, Tail(order))

\* A get_lowest that restarts the set on a tie instead of extending it.
RECURSIVE lowest_scan_last_only(_, _, _)
lowest_scan_last_only(totals, acc, order) ==
    IF order = <<>> THEN acc.lowest_candidates
    ELSE LET candidate == Head(order)
             total == totals[candidate]
             next == IF total <= acc.lowest_total
                       THEN [lowest_total |-> total, lowest_candidates |-> {candidate}]
                     ELSE acc
         IN  lowest_scan_last_only(totals, next, Tail(order))

get_lowest_last_only(totals, order) ==
    lowest_scan_last_only(totals,
        [lowest_total |-> totals[order[1]], lowest_candidates |-> {}], order)

\* get_lowest on a non-empty dict; any_value(totals) is the first value in
\* iteration order.  On an empty dict any_value raises ValueError (see
\* EvalRaise).
get_lowest(totals, order) ==
    lowest_scan(totals,
        [lowest_total |-> totals[order[1]], lowest_candidates |-> {}], order)

----------------------------------------------------------------------------
\* Tabulator.count_ballots

\* Totals carried over from the previous round instead of starting at zero.
zero_totals_stale(cands) ==
    [c \in cands |-> IF rounds # <<>> THEN rounds[Len(rounds)].totals[c] ELSE 0]

\* totals = {}; for candidate_number in candidate_numbers: totals[..] = 0
zero_totals(cands) == [c \in cands |-> 0]

\* An inner loop without the break: every eligible choice receives the weight.
RECURSIVE count_ballot_no_break(_, _, _, _)
count_ballot_no_break(totals, weight, choices, cands) ==
    IF choices = <<>> THEN totals
    ELSE IF Head(choices) \in cands
      THEN count_ballot_no_break([totals EXCEPT ![Head(choices)] = @ + weight],
                                 weight, Tail(choices), cands)
    ELSE count_ballot_no_break(totals, weight, Tail(choices), cands)

\* An inner loop that looks at the first choice only.
count_ballot_first_only(totals, weight, choices, cands) ==
    IF choices # <<>> /\ Head(choices) \in cands
      THEN [totals EXCEPT ![Head(choices)] = @ + weight]
    ELSE totals

\* The inner loop: for choice in choices: if eligible, add weight and break.
RECURSIVE count_ballot(_, _, _, _)
count_ballot(totals, weight, choices, cands) ==
    IF choices = <<>> THEN totals
    ELSE IF Head(choices) \in cands
      THEN [totals EXCEPT ![Head(choices)] = @ + weight]
    ELSE count_ballot(totals, weight, Tail(choices), cands)

\* The outer loop over one full read pass of the ballots.
RECURSIVE count_pass(_, _, _)
count_pass(totals, ballots, cands) ==
    IF ballots = <<>> THEN totals
    ELSE count_pass(count_ballot(totals, Head(ballots).weight,
                                 Head(ballots).choices, cands),
                    Tail(ballots), cands)

count_ballots(cands) == count_pass(zero_totals(cands), seq, cands)

\* An elimination written with "=" in place of "-=".
eliminate_assign(cands, last_place) == last_place

\* candidate_numbers -= last_place
eliminate(cands, last_place) == cands \ last_place

----------------------------------------------------------------------------
\* No stream scope and no normalization in progress.

NoException == [orig |-> "none", by |-> "none", left |-> "none",
                positional |-> FALSE, number |-> 0, item |-> 0]

NoStream ==
    /\ kind = "list"
    /\ store = <<>>
    /\ fpos = 0
    /\ handle = "none"
    /\ tempctx = "none"
    /\ scope = "idle"
    /\ last = "none"
    /\ gen = "none"
    /\ yielded = <<>>
    /\ written = <<>>
    /\ exc = NoException

NoNormalize ==
    /\ npc = "none"
    /\ target = <<>>
    /\ choices_dict = <<>>
    /\ sorted_choices = <<>>
    /\ same = FALSE

\* No result of an earlier invocation.
NoResult == [done |-> FALSE, rounds |-> <<>>,
             outcome |-> [tied_last_place |-> {}, last_round |-> None],
             error |-> "none", output |-> <<>>]

\* No pass open and no earlier invocation.
NoPass ==
    /\ pass_totals = <<>>
    /\ open_reads = 0
    /\ first = NoResult

----------------------------------------------------------------------------
\* The state machine of Tabulator.count

TypeOK ==
    /\ candidates \in 0..MaxCandidates
    /\ seq \in BallotLists
    /\ pc \in {"start", "count_ballots", "evaluate", "done", "raised"}
    /\ candidate_numbers \subseteq 1..MaxCandidates
    /\ outcome \in [tied_last_place : SUBSET (1..MaxCandidates),
                    last_round : 0..(MaxCandidates + 1)]
    /\ threshold \in Nat
    /\ passes \in Nat
    /\ error \in {"none", "ValueError"}

Init ==
    /\ candidates \in 0..MaxCandidates
    /\ seq \in BallotLists
    /\ pc = "start"
    /\ candidate_numbers = {}
    /\ rounds = <<>>
    /\ outcome = [tied_last_place |-> {}, last_round |-> None]
    /\ threshold = 0
    /\ passes = 0
    /\ error = "none"
    /\ NoPass
    /\ NoStream
    /\ NoNormalize

\* count, up to the loop.
CountStart ==
    /\ pc = "start"
    /\ candidate_numbers' = make_candidates(candidates)
    /\ outcome' = [tied_last_place |-> {}, last_round |-> None]
    /\ rounds' = <<>>
    /\ pc' = "count_ballots"
    /\ UNCHANGED <<candidates, seq, threshold, passes, error>>
    /\ UNCHANGED <<pvars, svars, nvars>>

\* One round's count_ballots call and the append of its round result.
CountRound ==
    /\ pc = "count_ballots"
    /\ passes' = passes + 1
    /\ rounds' = Append(rounds, [totals |-> count_ballots(candidate_numbers),
                                 elected |-> <<>>])
    /\ pc' = "evaluate"
    /\ UNCHANGED <<candidates, seq, candidate_numbers, outcome, threshold, error>>
    /\ UNCHANGED <<pvars, svars, nvars>>

LastTotals == rounds[Len(rounds)].totals

\* get_winner found a winner: mark it elected, leave the loop and return.
EvalWinner ==
    /\ pc = "evaluate"
    /\ \E order \in ItemOrders(DOMAIN LastTotals) :
        LET winner == get_winner(LastTotals, order)
        IN  /\ winner # None
            /\ rounds' = [rounds EXCEPT ![Len(rounds)].elected = <<winner>>]
    /\ threshold' = get_majority(SumTotals(LastTotals))
    /\ outcome' = [outcome EXCEPT !.last_round = Len(rounds)]
    /\ pc' = "done"
    /\ UNCHANGED <<candidates, seq, candidate_numbers, passes, error>>
    /\ UNCHANGED <<pvars, svars, nvars>>

\* A tie test written "len(last_place) >= 1".
EvalTie_at_least_one ==
    /\ pc = "evaluate"
    /\ DOMAIN LastTotals # {}
    /\ \E order \in ItemOrders(DOMAIN LastTotals) :
        LET winner == get_winner(LastTotals, order)
            last_place == get_lowest(LastTotals, order)
        IN  /\ winner = None
            /\ Cardinality(last_place) >= 1
            /\ outcome' = [tied_last_place |-> last_place, last_round |-> Len(rounds)]
    /\ threshold' = get_majority(SumTotals(LastTotals))
    /\ pc' = "done"
    /\ UNCHANGED <<candidates, seq, candidate_numbers, rounds, passes, error>>
    /\ UNCHANGED <<pvars, svars, nvars>>

\* No winner and a tie for last place: record it, leave the loop and return.
EvalTie ==
    /\ pc = "evaluate"
    /\ DOMAIN LastTotals # {}
    /\ \E order \in ItemOrders(DOMAIN LastTotals) :
        LET winner == get_winner(LastTotals, order)
            last_place == get_lowest(LastTotals, order)
        IN  /\ winner = None
            /\ Cardinality(last_place) > 1
            /\ outcome' = [tied_last_place |-> last_place, last_round |-> Len(rounds)]
    /\ threshold' = get_majority(SumTotals(LastTotals))
    /\ pc' = "done"
    /\ UNCHANGED <<candidates, seq, candidate_numbers, rounds, passes, error>>
    /\ UNCHANGED <<pvars, svars, nvars>>

\* No winner and no tie: eliminate and count another round.
EvalEliminate ==
    /\ pc = "evaluate"
    /\ DOMAIN LastTotals # {}
    /\ \E order \in ItemOrders(DOMAIN LastTotals) :
        LET winner == get_winner(LastTotals, order)
            last_place == get_lowest(LastTotals, order)
        IN  /\ winner = None
            /\ ~(Cardinality(last_place) > 1)
            /\ candidate_numbers' = eliminate(candidate_numbers, last_place)
    /\ threshold' = get_majority(SumTotals(LastTotals))
    /\ pc' = "count_ballots"
    /\ UNCHANGED <<candidates, seq, rounds, outcome, passes, error>>
    /\ UNCHANGED <<pvars, svars, nvars>>

\* No winner and totals is empty: any_value raises ValueError out of count.
EvalRaise ==
    /\ pc = "evaluate"
    /\ DOMAIN LastTotals = {}
    /\ get_winner(LastTotals, <<>>) = None
    /\ threshold' = get_majority(SumTotals(LastTotals))
    /\ error' = "ValueError"
    /\ pc' = "raised"
    /\ UNCHANGED <<candidates, seq, candidate_numbers, rounds, outcome, passes>>
    /\ UNCHANGED <<pvars, svars, nvars>>

----------------------------------------------------------------------------
\* Stream resources (streams.py)

\* Bounds of the stream model: length of a backing store, item values.
MaxStore == 2
MaxItem == 2

Items == 1..MaxItem

Stores == UNION { [1..n -> Items] : n \in 0..MaxStore }

Kinds == {"list", "path", "rwfile", "temp", "standard", "string", "null"}

\* Resources whose iterator is a file object: its position is the file's.
FileKinds == {"path", "rwfile", "temp", "standard"}

\* Exception classes raised inside a scope.
ExcKinds == {"ValueError", "UnicodeDecodeError"}

\* type(exc)(message): the class can be built from one string.
StrCtor(k) == k # "UnicodeDecodeError"

\* No count in progress.
NoCount ==
    /\ candidates = 0
    /\ seq = <<>>
    /\ pc = "none"
    /\ candidate_numbers = {}
    /\ rounds = <<>>
    /\ outcome = [tied_last_place |-> {}, last_round |-> None]
    /\ threshold = 0
    /\ passes = 0
    /\ error = "none"
    /\ NoPass

\* Position of the iterator that open_read yields.
open_read_pos(k, pos) == IF k = "standard" THEN pos ELSE 0

\* A writing() that keeps the null resource writable.
open_write_raises_never(k) == FALSE

\* NullStreamResource.writing raises TypeError before any sink exists.
open_write_raises(k) == k = "null"

\* Backing store once open_write has yielded the sink.
open_write_store(k, s) == IF k \in {"standard", "string"} THEN s ELSE <<>>

\* File position once open_write has yielded the sink.
open_write_pos(k, pos) == IF k = "standard" THEN pos ELSE 0

\* The handle after open_read or open_write: logged_open for a path, the
\* lazily created SpooledTemporaryFile for a temporary resource.
acquire(k, h) == IF k \in {"path", "temp"} THEN "open" ELSE h

\* A FilePathResource._open without the with statement.
release_never(k, h) == h

\* The handle after the scope has exited: the with statement of
\* FilePathResource._open closes the file, the other classes close nothing.
release(k, h) == IF k = "path" THEN "closed" ELSE h

\* The exception that leaves a reading() scope when exception class k is
\* thrown into the tracked generator in state g.
reading_raise(g, k, by, ys) ==
    IF g = "suspended"
      THEN IF StrCtor(k)
             THEN [orig |-> k, by |-> by, left |-> k, positional |-> TRUE,
                   number |-> Len(ys), item |-> ys[Len(ys)]]
           ELSE [orig |-> k, by |-> by, left |-> "TypeError", positional |-> FALSE,
                 number |-> 0, item |-> 0]
    ELSE [orig |-> k, by |-> by, left |-> k, positional |-> FALSE,
          number |-> 0, item |-> 0]

\* A writing() that reports the last item written.
writing_raise_tracked(k, ws) ==
    [orig |-> k, by |-> "consumer", left |-> k, positional |-> ws # <<>>,
     number |-> Len(ws), item |-> IF ws = <<>> THEN 0 ELSE ws[Len(ws)]]

\* The exception that leaves a writing() scope: the one raised in it.
writing_raise(k, ws) ==
    [orig |-> k, by |-> "consumer", left |-> k, positional |-> FALSE,
     number |-> 0, item |-> 0]

\* Backing store after sink.write(item).
write_item(k, s, pos, item) ==
    IF k \in FileKinds
      THEN IF pos < Len(s) THEN [s EXCEPT ![pos + 1] = item] ELSE Append(s, item)
    ELSE IF k = "string" THEN s
    ELSE Append(s, item)

InitStreams ==
    /\ NoCount
    /\ NoNormalize
    /\ kind \in Kinds
    /\ store \in Stores
    /\ kind \in {"null", "temp"} => store = <<>>
    /\ fpos = 0
    /\ handle = "none"
    /\ tempctx = IF kind = "temp" THEN "active" ELSE "none"
    /\ scope = "idle"
    /\ last = "none"
    /\ gen = "none"
    /\ yielded = <<>>
    /\ written = <<>>
    /\ exc = NoException

Usable == scope = "idle" /\ (kind = "temp" => tempctx = "active")

\* with resource.reading() as stream: the scope is entered.
OpenRead ==
    /\ Usable
    /\ scope' = "reading"
    /\ last' = "reading"
    /\ fpos' = open_read_pos(kind, fpos)
    /\ handle' = acquire(kind, handle)
    /\ gen' = "unstarted"
    /\ yielded' = <<>>
    /\ written' = <<>>
    /\ exc' = NoException
    /\ UNCHANGED <<kind, store, tempctx, tvars, nvars>>

\* The consumer asks the stream for the next item.
ReadNext ==
    /\ scope = "reading"
    /\ gen # "finished"
    /\ IF fpos < Len(store)
         THEN /\ yielded' = Append(yielded, store[fpos + 1])
              /\ fpos' = fpos + 1
              /\ gen' = "suspended"
         ELSE /\ gen' = "finished"
              /\ UNCHANGED <<yielded, fpos>>
    /\ UNCHANGED <<kind, store, handle, tempctx, scope, last, written, exc, tvars, nvars>>

\* The reading scope is left normally.
CloseRead ==
    /\ scope = "reading"
    /\ scope' = "idle"
    /\ gen' = "none"
    /\ handle' = release(kind, handle)
    /\ UNCHANGED <<kind, store, fpos, tempctx, last, yielded, written, exc, tvars, nvars>>

\* The consumer raises inside the reading scope.
ConsumerRaise ==
    /\ scope = "reading"
    /\ \E k \in ExcKinds : exc' = reading_raise(gen, k, "consumer", yielded)
    /\ scope' = "idle"
    /\ gen' = "none"
    /\ handle' = release(kind, handle)
    /\ UNCHANGED <<kind, store, fpos, tempctx, last, yielded, written, tvars, nvars>>

\* The file raises while producing the next item: the exception passes
\* through the tracked generator, which is finished when reading() throws
\* the exception into it.
StoreRaise ==
    /\ scope = "reading"
    /\ kind \in FileKinds
    /\ gen # "finished"
    /\ fpos < Len(store)
    /\ \E k \in ExcKinds : exc' = reading_raise("finished", k, "store", yielded)
    /\ scope' = "idle"
    /\ gen' = "none"
    /\ handle' = release(kind, handle)
    /\ UNCHANGED <<kind, store, fpos, tempctx, last, yielded, written, tvars, nvars>>

\* resource.writing() on a resource that refuses it.
OpenWriteFail ==
    /\ Usable
    /\ open_write_raises(kind)
    /\ last' = "writing"
    /\ exc' = [orig |-> "TypeError", by |-> "resource", left |-> "TypeError",
               positional |-> FALSE, number |-> 0, item |-> 0]
    /\ yielded' = <<>>
    /\ written' = <<>>
    /\ UNCHANGED <<kind, store, fpos, handle, tempctx, scope, gen, tvars, nvars>>

\* with resource.writing() as stream: the scope is entered.
OpenWrite ==
    /\ Usable
    /\ ~ open_write_raises(kind)
    /\ scope' = "writing"
    /\ last' = "writing"
    /\ store' = open_write_store(kind, store)
    /\ fpos' = open_write_pos(kind, fpos)
    /\ handle' = acquire(kind, handle)
    /\ yielded' = <<>>
    /\ written' = <<>>
    /\ exc' = NoException
    /\ UNCHANGED <<kind, tempctx, gen, tvars, nvars>>

\* stream.write(item)
Write ==
    /\ scope = "writing"
    /\ \E item \in Items :
        /\ Len(write_item(kind, store, fpos, item)) <= MaxStore
        /\ Len(written) < MaxStore
        /\ store' = write_item(kind, store, fpos, item)
        /\ written' = Append(written, item)
    /\ fpos' = IF kind \in FileKinds THEN fpos + 1 ELSE fpos
    /\ UNCHANGED <<kind, handle, tempctx, scope, last, gen, yielded, exc, tvars, nvars>>

\* The writing scope is left normally; StringResource stores f.getvalue().
CloseWrite ==
    /\ scope = "writing"
    /\ scope' = "idle"
    /\ store' = IF kind = "string" THEN written ELSE store
    /\ handle' = release(kind, handle)
    /\ UNCHANGED <<kind, fpos, tempctx, last, gen, yielded, written, exc, tvars, nvars>>

\* The writer raises inside the writing scope.
WriterRaise ==
    /\ scope = "writing"
    /\ \E k \in ExcKinds : exc' = writing_raise(k, written)
    /\ scope' = "idle"
    /\ handle' = release(kind, handle)
    /\ UNCHANGED <<kind, store, fpos, tempctx, last, gen, yielded, written, tvars, nvars>>

\* The temp_stream_resource() scope is left: the file is closed if open.
TempExit ==
    /\ kind = "temp"
    /\ tempctx = "active"
    /\ scope = "idle"
    /\ tempctx' = "exited"
    /\ handle' = IF handle = "none" THEN handle ELSE "closed"
    /\ UNCHANGED <<kind, store, fpos, scope, last, gen, yielded, written, exc, tvars, nvars>>

NextStreams ==
    \/ OpenRead
    \/ ReadNext
    \/ CloseRead
    \/ ConsumerRaise
    \/ StoreRaise
    \/ OpenWriteFail
    \/ OpenWrite
    \/ Write
    \/ CloseWrite
    \/ WriterRaise
    \/ TempExit

SpecStreams == InitStreams /\ [][NextStreams]_vars

----------------------------------------------------------------------------
\* normalize_ballots (models.py)

\* Bounds of the normalization model.
NormIds == 2
NormMaxWeight == 1
NormMaxBallots == 2

\* Every ranking without repetition over the identifiers 1..NormIds.
NormChoiceSeqs ==
    UNION { { s \in [1..n -> 1..NormIds] : \A i, j \in 1..n : i # j => s[i] # s[j] }
            : n \in 0..NormIds }

NormBallots == [weight : 0..NormMaxWeight, choices : NormChoiceSeqs]

NormBallotLists == UNION { [1..n -> NormBallots] : n \in 0..NormMaxBallots }

\* A dict update written with "=" in place of "+=".
accumulate_overwrite(d, weight, choices) ==
    [c \in DOMAIN d \cup {choices} |-> IF c = choices THEN weight ELSE d[c]]

\* A dict that keeps the weight of the first ballot with the choices.
accumulate_keep_first(d, weight, choices) ==
    IF choices \in DOMAIN d
      THEN d
    ELSE [c \in DOMAIN d \cup {choices} |-> IF c = choices THEN weight ELSE d[c]]

\* A first occurrence that is stored and then added once more.
accumulate_double_first(d, weight, choices) ==
    IF choices \in DOMAIN d
      THEN [d EXCEPT ![choices] = @ + weight]
    ELSE [c \in DOMAIN d \cup {choices} |-> IF c = choices THEN weight + weight ELSE d[c]]

\* try: choices_dict[choices] += weight / except KeyError: ... = weight
accumulate(d, weight, choices) ==
    IF choices \in DOMAIN d
      THEN [d EXCEPT ![choices] = @ + weight]
    ELSE [c \in DOMAIN d \cup {choices} |-> IF c = choices THEN weight ELSE d[c]]

\* The loop over the read pass of the source.
RECURSIVE accumulate_pass(_, _)
accumulate_pass(d, ballots) ==
    IF ballots = <<>> THEN d
    ELSE accumulate_pass(accumulate(d, Head(ballots).weight, Head(ballots).choices),
                         Tail(ballots))

\* A comparison that puts shorter tuples first.
RECURSIVE tuple_less_shortlex(_, _)
tuple_less_shortlex(a, b) ==
    IF Len(a) # Len(b) THEN Len(a) < Len(b)
    ELSE IF a = <<>> THEN FALSE
    ELSE IF Head(a) # Head(b) THEN Head(a) < Head(b)
    ELSE tuple_less_shortlex(Tail(a), Tail(b))

\* Python's a < b on tuples of integers: the first differing element
\* decides; without one, the shorter tuple is the smaller.
RECURSIVE tuple_less(_, _)
tuple_less(a, b) ==
    IF b = <<>> THEN FALSE
    ELSE IF a = <<>> THEN TRUE
    ELSE IF Head(a) # Head(b) THEN Head(a) < Head(b)
    ELSE tuple_less(Tail(a), Tail(b))

\* sorted(keys) for distinct keys.
RECURSIVE sorted(_)
sorted(keys) ==
    IF keys = {} THEN <<>>
    ELSE LET m == CHOOSE x \in keys : \A y \in keys \ {x} : tuple_less(x, y)
         IN  <<m>> \o sorted(keys \ {m})

\* The loop over sorted_choices writing (weight, choices) to the list sink.
RECURSIVE write_ballots(_, _, _)
write_ballots(s, d, keys) ==
    IF keys = <<>> THEN s
    ELSE write_ballots(write_item("list", s, 0,
                                  [weight |-> d[Head(keys)], choices |-> Head(keys)]),
                       d, Tail(keys))

\* Contents left in the target list by an earlier use.
NormTargets == { <<>>, <<[weight |-> 1, choices |-> <<1>>]>> }

InitNorm ==
    /\ candidates = 0
    /\ seq \in NormBallotLists
    /\ pc = "none"
    /\ candidate_numbers = {}
    /\ rounds = <<>>
    /\ outcome = [tied_last_place |-> {}, last_round |-> None]
    /\ threshold = 0
    /\ passes = 0
    /\ error = "none"
    /\ NoPass
    /\ NoStream
    /\ npc = "start"
    /\ target \in NormTargets
    /\ choices_dict = <<>>
    /\ sorted_choices = <<>>
    /\ same = FALSE

\* The reading scope on the source: accumulate, then sort the keys.
NormRead ==
    /\ npc = "start"
    /\ choices_dict' = accumulate_pass(<<>>, seq)
    /\ sorted_choices' = sorted(DOMAIN accumulate_pass(<<>>, seq))
    /\ npc' = "read"
    /\ UNCHANGED <<target, same, tvars, svars>>

\* The writing scope on the target: clear the list and write the ballots.
NormWrite ==
    /\ npc = "read"
    /\ target' = write_ballots(open_write_store("list", target),
                               choices_dict, sorted_choices)
    /\ npc' = "done"
    /\ UNCHANGED <<choices_dict, sorted_choices, same, tvars, svars>>

NextNorm ==
    \/ NormRead
    \/ NormWrite

SpecNorm == InitNorm /\ [][NextNorm]_vars

\* A second call of normalize_ballots, whose source is the target of the
\* first call and whose target is another list.
NormAgain ==
    /\ npc = "done"
    /\ ~first.done
    /\ first' = [NoResult EXCEPT !.done = TRUE, !.output = target]
    /\ seq' = target
    /\ target' \in NormTargets
    /\ choices_dict' = <<>>
    /\ sorted_choices' = <<>>
    /\ npc' = "start"
    /\ UNCHANGED <<candidates, pc, candidate_numbers, rounds, outcome, threshold,
                   passes, error, pass_totals, open_reads, same, svars>>

NextNormTwice ==
    \/ NormRead
    \/ NormWrite
    \/ NormAgain

SpecNormTwice == InitNorm /\ [][NextNormTwice]_vars

----------------------------------------------------------------------------
\* normalize_ballots in steps, on two lists or on one list given as both
\* source and target

\* The list the source resource reads.
source_seq == IF same THEN target ELSE seq

InitNormSteps ==
    /\ candidates = 0
    /\ seq \in NormBallotLists
    /\ pc = "none"
    /\ candidate_numbers = {}
    /\ rounds = <<>>
    /\ outcome = [tied_last_place |-> {}, last_round |-> None]
    /\ threshold = 0
    /\ passes = 0
    /\ error = "none"
    /\ NoPass
    /\ NoStream
    /\ npc = "start"
    /\ same \in BOOLEAN
    /\ target \in (IF same THEN {seq} ELSE NormTargets)
    /\ choices_dict = <<>>
    /\ sorted_choices = <<>>

\* A source and a target opened by one with statement.
NormOpenRead_nested ==
    /\ npc = "start"
    /\ choices_dict' = <<>>
    /\ scope' = "reading"
    /\ last' = "writing"
    /\ fpos' = open_read_pos("list", fpos)
    /\ gen' = "unstarted"
    /\ yielded' = <<>>
    /\ target' = open_write_store("list", target)
    /\ npc' = "reading"
    /\ UNCHANGED <<sorted_choices, same, tvars>>
    /\ UNCHANGED <<kind, store, handle, tempctx, written, exc>>

\* choices_dict = {}; with source.reading() as ballots: the scope is entered.
NormOpenRead ==
    /\ npc = "start"
    /\ choices_dict' = <<>>
    /\ scope' = "reading"
    /\ last' = "reading"
    /\ fpos' = open_read_pos("list", fpos)
    /\ gen' = "unstarted"
    /\ yielded' = <<>>
    /\ npc' = "reading"
    /\ UNCHANGED <<target, sorted_choices, same, tvars>>
    /\ UNCHANGED <<kind, store, handle, tempctx, written, exc>>

\* One iteration of "for weight, choices in ballots".
NormReadBallot ==
    /\ npc = "reading"
    /\ fpos < Len(source_seq)
    /\ choices_dict' = accumulate(choices_dict, source_seq[fpos + 1].weight,
                                  source_seq[fpos + 1].choices)
    /\ yielded' = Append(yielded, source_seq[fpos + 1])
    /\ fpos' = fpos + 1
    /\ gen' = "suspended"
    /\ UNCHANGED <<npc, target, sorted_choices, same, tvars>>
    /\ UNCHANGED <<kind, store, handle, tempctx, scope, last, written, exc>>

\* An exception is raised inside the reading scope: it leaves the scope and
\* normalize_ballots, which has no handler.
NormReadRaise ==
    /\ npc = "reading"
    /\ \E k \in ExcKinds : exc' = reading_raise(gen, k, "consumer", yielded)
    /\ scope' = "idle"
    /\ gen' = "none"
    /\ npc' = "raised"
    /\ UNCHANGED <<target, choices_dict, sorted_choices, same, tvars>>
    /\ UNCHANGED <<kind, store, fpos, handle, tempctx, last, yielded, written>>

\* The stream is exhausted: the keys are sorted and the reading scope is left.
NormCloseRead ==
    /\ npc = "reading"
    /\ fpos = Len(source_seq)
    /\ sorted_choices' = sorted(DOMAIN choices_dict)
    /\ scope' = "idle"
    /\ gen' = "none"
    /\ npc' = "read"
    /\ UNCHANGED <<target, choices_dict, same, tvars>>
    /\ UNCHANGED <<kind, store, fpos, handle, tempctx, last, yielded, written, exc>>

\* with target.writing() as ballots: the list is cleared, the scope entered.
NormOpenWrite ==
    /\ npc = "read"
    /\ target' = open_write_store("list", target)
    /\ scope' = "writing"
    /\ last' = "writing"
    /\ written' = <<>>
    /\ npc' = "writing"
    /\ UNCHANGED <<choices_dict, sorted_choices, same, tvars>>
    /\ UNCHANGED <<kind, store, fpos, handle, tempctx, gen, yielded, exc>>

\* One iteration of "for choices in sorted_choices".
NormWriteBallot ==
    /\ npc = "writing"
    /\ Len(written) < Len(sorted_choices)
    /\ LET choices == sorted_choices[Len(written) + 1]
           ballot == [weight |-> choices_dict[choices], choices |-> choices]
       IN  /\ target' = write_item("list", target, 0, ballot)
           /\ written' = Append(written, ballot)
    /\ UNCHANGED <<npc, choices_dict, sorted_choices, same, tvars>>
    /\ UNCHANGED <<kind, store, fpos, handle, tempctx, scope, last, gen, yielded, exc>>

\* The loop has ended: the writing scope is left and normalize_ballots returns.
NormCloseWrite ==
    /\ npc = "writing"
    /\ Len(written) = Len(sorted_choices)
    /\ scope' = "idle"
    /\ npc' = "done"
    /\ UNCHANGED <<target, choices_dict, sorted_choices, same, tvars>>
    /\ UNCHANGED <<kind, store, fpos, handle, tempctx, last, gen, yielded, written, exc>>

NextNormSteps ==
    \/ NormOpenRead
    \/ NormReadBallot
    \/ NormReadRaise
    \/ NormCloseRead
    \/ NormOpenWrite
    \/ NormWriteBallot
    \/ NormCloseWrite

SpecNormSteps == InitNormSteps /\ [][NextNormSteps]_vars

----------------------------------------------------------------------------
\* Tabulator.count over a file-backed ballot store that can fail

InitFail ==
    /\ candidates \in 0..MaxCandidates
    /\ seq \in NormBallotLists
    /\ pc = "start"
    /\ candidate_numbers = {}
    /\ rounds = <<>>
    /\ outcome = [tied_last_place |-> {}, last_round |-> None]
    /\ threshold = 0
    /\ passes = 0
    /\ error = "none"
    /\ NoPass
    /\ kind = "path"
    /\ store = <<>>
    /\ fpos = 0
    /\ handle = "none"
    /\ tempctx = "none"
    /\ scope = "idle"
    /\ last = "none"
    /\ gen = "none"
    /\ yielded = <<>>
    /\ written = <<>>
    /\ exc = NoException
    /\ NoNormalize

\* One round's count_ballots call in which the stream raises while producing
\* ballot k: the error is raised inside the tracked() generator, leaves the
\* reading() scope and count_ballots and count, neither of which catches it.
CountRoundFail ==
    /\ pc = "count_ballots"
    /\ \E k \in 1..Len(seq), e \in ExcKinds :
        /\ yielded' = SubSeq(seq, 1, k - 1)
        /\ exc' = reading_raise("finished", e, "store", SubSeq(seq, 1, k - 1))
        /\ error' = reading_raise("finished", e, "store", SubSeq(seq, 1, k - 1)).left
    /\ passes' = passes + 1
    /\ last' = "reading"
    /\ handle' = release(kind, acquire(kind, handle))
    /\ pc' = "raised"
    /\ UNCHANGED <<candidates, seq, candidate_numbers, rounds, outcome, threshold>>
    /\ UNCHANGED <<kind, store, fpos, tempctx, scope, gen, written, pvars, nvars>>

NextFail ==
    \/ CountStart
    \/ CountRound
    \/ CountRoundFail
    \/ EvalWinner
    \/ EvalTie
    \/ EvalEliminate
    \/ EvalRaise

SpecFail == InitFail /\ [][NextFail]_vars

\* count_ballots in steps.  The totals are zeroed and the reading() scope on
\* the ballots resource is entered.
CountOpen ==
    /\ pc = "count_ballots"
    /\ pass_totals' = zero_totals(candidate_numbers)
    /\ passes' = passes + 1
    /\ open_reads' = open_reads + 1
    /\ scope' = "reading"
    /\ last' = "reading"
    /\ fpos' = open_read_pos(kind, fpos)
    /\ handle' = acquire(kind, handle)
    /\ gen' = "unstarted"
    /\ pc' = "reading"
    /\ UNCHANGED <<candidates, seq, candidate_numbers, rounds, outcome, threshold,
                   error, first>>
    /\ UNCHANGED <<kind, store, tempctx, yielded, written, exc, nvars>>

\* One iteration of "for weight, choices in ballots".
CountBallot ==
    /\ pc = "reading"
    /\ fpos < Len(seq)
    /\ pass_totals' = count_ballot(pass_totals, seq[fpos + 1].weight,
                                   seq[fpos + 1].choices, candidate_numbers)
    /\ fpos' = fpos + 1
    /\ gen' = "suspended"
    /\ UNCHANGED <<candidates, seq, pc, candidate_numbers, rounds, outcome, threshold,
                   passes, error, open_reads, first>>
    /\ UNCHANGED <<kind, store, handle, tempctx, scope, last, yielded, written, exc,
                   nvars>>

\* A reading scope that is left without being closed.
CountClose_leak ==
    /\ pc = "reading"
    /\ fpos = Len(seq)
    /\ scope' = "idle"
    /\ gen' = "none"
    /\ handle' = release(kind, handle)
    /\ rounds' = Append(rounds, [totals |-> pass_totals, elected |-> <<>>])
    /\ pass_totals' = <<>>
    /\ pc' = "evaluate"
    /\ UNCHANGED <<candidates, seq, candidate_numbers, outcome, threshold, passes,
                   error, open_reads, first>>
    /\ UNCHANGED <<kind, store, fpos, tempctx, last, yielded, written, exc, nvars>>

\* The stream is exhausted: the loop ends, the reading scope is left,
\* count_ballots returns its totals and count appends the round result.
CountClose ==
    /\ pc = "reading"
    /\ fpos = Len(seq)
    /\ open_reads' = open_reads - 1
    /\ scope' = "idle"
    /\ gen' = "none"
    /\ handle' = release(kind, handle)
    /\ rounds' = Append(rounds, [totals |-> pass_totals, elected |-> <<>>])
    /\ pass_totals' = <<>>
    /\ pc' = "evaluate"
    /\ UNCHANGED <<candidates, seq, candidate_numbers, outcome, threshold, passes,
                   error, first>>
    /\ UNCHANGED <<kind, store, fpos, tempctx, last, yielded, written, exc, nvars>>

NextPasses ==
    \/ CountStart
    \/ CountOpen
    \/ CountBallot
    \/ CountClose
    \/ EvalWinner
    \/ EvalTie
    \/ EvalEliminate
    \/ EvalRaise

SpecPasses == Init /\ [][NextPasses]_vars

\* count has returned or raised and is invoked again on the same Tabulator:
\* what the first invocation returned is kept for comparison.
CountAgain ==
    /\ pc \in {"done", "raised"}
    /\ ~first.done
    /\ first' = [NoResult EXCEPT !.done = TRUE, !.rounds = rounds,
                                 !.outcome = outcome, !.error = error]
    /\ error' = "none"
    /\ pc' = "start"
    /\ UNCHANGED <<candidates, seq, candidate_numbers, rounds, outcome, threshold,
                   passes, pass_totals, open_reads, svars, nvars>>

NextTwice ==
    \/ CountStart
    \/ CountRound
    \/ EvalWinner
    \/ EvalTie
    \/ EvalEliminate
    \/ EvalRaise
    \/ CountAgain

SpecTwice == Init /\ [][NextTwice]_vars

----------------------------------------------------------------------------
\* Tabulator.count on a contest, normalize_ballots of its ballots into a new
\* list, and Tabulator.count on the contest with the new list as its ballots

InitNormCount ==
    /\ candidates \in 0..MaxCandidates
    /\ seq \in BallotLists
    /\ pc = "start"
    /\ candidate_numbers = {}
    /\ rounds = <<>>
    /\ outcome = [tied_last_place |-> {}, last_round |-> None]
    /\ threshold = 0
    /\ passes = 0
    /\ error = "none"
    /\ NoPass
    /\ NoStream
    /\ npc = "start"
    /\ target = <<>>
    /\ choices_dict = <<>>
    /\ sorted_choices = <<>>
    /\ same = FALSE

\* The read pass of normalize_ballots, once the first count has ended.
NormReadAfterCount ==
    /\ pc \in {"done", "raised"}
    /\ NormRead

\* The write pass of normalize_ballots.
NormWriteAfterCount ==
    /\ pc \in {"done", "raised"}
    /\ NormWrite

\* count is invoked on the contest whose ballots are the normalized list;
\* what the first invocation returned, and the ballots it read, are kept.
CountNormalized ==
    /\ pc \in {"done", "raised"}
    /\ npc = "done"
    /\ ~first.done
    /\ first' = [NoResult EXCEPT !.done = TRUE, !.rounds = rounds,
                                 !.outcome = outcome, !.error = error,
                                 !.output = seq]
    /\ seq' = target
    /\ error' = "none"
    /\ pc' = "start"
    /\ UNCHANGED <<candidates, candidate_numbers, rounds, outcome, threshold,
                   passes, pass_totals, open_reads, svars, nvars>>

NextNormCount ==
    \/ CountStart
    \/ CountRound
    \/ EvalWinner
    \/ EvalTie
    \/ EvalEliminate
    \/ EvalRaise
    \/ NormReadAfterCount
    \/ NormWriteAfterCount
    \/ CountNormalized

SpecNormCount == InitNormCount /\ [][NextNormCount]_vars

Next ==
    \/ CountStart
    \/ CountRound
    \/ EvalWinner
    \/ EvalTie
    \/ EvalEliminate
    \/ EvalRaise

Spec == Init /\ [][Next]_vars

----------------------------------------------------------------------------
\* Definitions used to state the properties, written independently of the
\* loops above.

Terminal == {"done", "raised"}

Range(s) == { s[i] : i \in 1..Len(s) }

\* The highest-ranked choice of a ballot that belongs to the eligible set,
\* or None.
FirstEligible(choices, eligible) ==
    IF \E i \in 1..Len(choices) : choices[i] \in eligible
      THEN choices[CHOOSE i \in 1..Len(choices) :
                     /\ choices[i] \in eligible
                     /\ \A j \in 1..(i - 1) : choices[j] \notin eligible]
    ELSE None

RECURSIVE WeightOver(_)
WeightOver(idx) ==
    IF idx = {} THEN 0
    ELSE LET i == CHOOSE k \in idx : TRUE
         IN  seq[i].weight + WeightOver(idx \ {i})

\* Sum of the weights of the ballots counting for candidate c.
ExpectedTotal(c, eligible) ==
    WeightOver({ i \in 1..Len(seq) : FirstEligible(seq[i].choices, eligible) = c })

MeetingThreshold(totals) ==
    { c \in DOMAIN totals : 2 * totals[c] > SumTotals(totals) }

LowestSet(totals) ==
    { c \in DOMAIN totals : \A d \in DOMAIN totals : totals[c] <= totals[d] }

RoundSum(n) == SumTotals(rounds[n].totals)

----------------------------------------------------------------------------
\* C1: in every round produced by count, the keys of the totals are exactly
\* the candidates eligible entering the round, each total is the sum of the
\* weights of the ballots whose first eligible choice is that candidate, and
\* ballots without an eligible choice add to no total.
C1_RoundTotals ==
    (rounds # <<>> /\ pc \in {"evaluate", "done", "raised"}) =>
        /\ DOMAIN LastTotals = candidate_numbers
        /\ \A c \in candidate_numbers :
               LastTotals[c] = ExpectedTotal(c, candidate_numbers)
        /\ SumTotals(LastTotals) =
               WeightOver({ i \in 1..Len(seq) :
                              Range(seq[i].choices) \cap candidate_numbers # {} })

\* A second round in which a ballot counts for its second choice because its
\* first choice was eliminated, and that choice's total is positive.
C1_Witness ==
    /\ pc = "evaluate"
    /\ Len(rounds) = 2
    /\ \E i \in 1..Len(seq) :
        /\ Len(seq[i].choices) = 2
        /\ seq[i].weight > 0
        /\ seq[i].choices[1] \in make_candidates(candidates) \ candidate_numbers
        /\ seq[i].choices[2] \in candidate_numbers
        /\ LastTotals[seq[i].choices[2]] > rounds[1].totals[seq[i].choices[2]]

\* C2: the threshold computed by get_majority for a total is total // 2 + 1:
\* the least integer exceeding half the total; it is 1 for a total of 0.
C2_Majority ==
    (rounds # <<>> /\ pc \in {"count_ballots", "done", "raised"}) =>
        LET total == SumTotals(LastTotals)
        IN  /\ threshold = (total \div 2) + 1
            /\ 2 * threshold > total
            /\ 2 * (threshold - 1) <= total
            /\ (total = 0 => threshold = 1)

\* get_majority was applied to a total of 0.
C2_Witness ==
    /\ pc = "done"
    /\ SumTotals(LastTotals) = 0
    /\ threshold = 1

\* C3: at most one candidate has a total at or above the majority threshold,
\* so get_winner returns the same candidate for every iteration order.
C3_UniqueMajority ==
    rounds # <<>> =>
        /\ Cardinality({ c \in DOMAIN LastTotals :
                 LastTotals[c] >= get_majority(SumTotals(LastTotals)) }) <= 1
        /\ \A o1, o2 \in ItemOrders(DOMAIN LastTotals) :
               get_winner(LastTotals, o1) = get_winner(LastTotals, o2)

\* A winner was found among three candidates that is not the first key.
C3_Witness ==
    /\ pc = "done"
    /\ Cardinality(DOMAIN LastTotals) = 3
    /\ rounds[Len(rounds)].elected \in {<<2>>, <<3>>}

\* C4: a round without majority winner and with exactly one lowest candidate
\* is followed by a round whose eligible set is the current one minus exactly
\* that candidate.
C4_EliminateOne ==
    [][ /\ (pc = "evaluate" /\ MeetingThreshold(LastTotals) = {}
                /\ Cardinality(LowestSet(LastTotals)) = 1)
            => /\ pc' = "count_ballots"
               /\ candidate_numbers' = candidate_numbers \ LowestSet(LastTotals)
               /\ Cardinality(candidate_numbers') = Cardinality(candidate_numbers) - 1
        /\ (pc = "count_ballots" /\ rounds # <<>>)
            => /\ Len(rounds') = Len(rounds) + 1
               /\ DOMAIN rounds'[Len(rounds')].totals =
                      DOMAIN LastTotals \ LowestSet(LastTotals)
               /\ Cardinality(LowestSet(LastTotals)) = 1 ]_vars

\* A second round counted over two of three candidates.
C4_Witness ==
    /\ Len(rounds) = 2
    /\ Cardinality(DOMAIN rounds[1].totals) = 3
    /\ Cardinality(DOMAIN rounds[2].totals) = 2

C6_Original ==
    candidates >= 1 =>
        /\ pc # "raised"
        /\ Len(rounds) <= candidates

\* C7 (as claimed): with an empty candidate set the failure is detected
\* before the ballots are opened for reading and before any round result.
C7_Original ==
    candidates = 0 =>
        /\ passes = 0
        /\ rounds = <<>>

\* C8 (as claimed): a single candidate and at least one ballot elect that
\* candidate in round 1.
C8_Original ==
    (candidates = 1 /\ Len(seq) >= 1 /\ pc \in Terminal) =>
        /\ pc = "done"
        /\ Len(rounds) = 1
        /\ rounds[1].elected = <<1>>

\* C8 (amended): a single candidate and at least one ballot of positive
\* weight that ranks the candidate elect that candidate in round 1.
C8_SingleCandidate ==
    (/\ candidates = 1
     /\ \E i \in 1..Len(seq) : seq[i].weight > 0 /\ 1 \in Range(seq[i].choices))
      => /\ Len(rounds) <= 1
         /\ pc \in Terminal =>
              /\ pc = "done"
              /\ Len(rounds) = 1
              /\ rounds[1].elected = <<1>>
              /\ outcome = [tied_last_place |-> {}, last_round |-> 1]

\* The single candidate was elected although an unusable ballot is present.
C8_Witness ==
    /\ candidates = 1
    /\ pc = "done"
    /\ rounds[1].elected = <<1>>
    /\ \E i \in 1..Len(seq) : seq[i].weight = 0 \/ 1 \notin Range(seq[i].choices)

\* C9 (as claimed): a single candidate and zero ballots end with nobody
\* elected and an unresolved outcome returned to the caller.
C9_Original ==
    (candidates = 1 /\ seq = <<>> /\ pc \in Terminal) =>
        /\ pc = "done"
        /\ error = "none"
        /\ \A n \in 1..Len(rounds) : rounds[n].elected = <<>>

\* C10: the sum of the totals of round n+1 is at most that of round n.
C10_SumNeverIncreases ==
    \A n \in 1..(Len(rounds) - 1) : RoundSum(n + 1) <= RoundSum(n)

\* A second round whose sum is strictly smaller: a ballot was exhausted.
C10_Witness ==
    /\ Len(rounds) = 2
    /\ RoundSum(2) < RoundSum(1)
    /\ RoundSum(2) > 0

\* C11 (as claimed): the sum of the totals of round 1 equals the sum of the
\* weights of the ballots whose first choice is an eligible candidate.
C11_Original ==
    rounds # <<>> =>
        RoundSum(1) =
            WeightOver({ i \in 1..Len(seq) :
                           /\ seq[i].choices # <<>>
                           /\ seq[i].choices[1] \in make_candidates(candidates) })

\* C11 (amended): the sum of the totals of round 1 equals the sum of the
\* weights of the ballots that rank at least one candidate of the contest,
\* whether or not unknown identifiers are ranked above it.
C11_RoundOneSum ==
    rounds # <<>> =>
        RoundSum(1) =
            WeightOver({ i \in 1..Len(seq) :
                           \E k \in 1..Len(seq[i].choices) :
                               seq[i].choices[k] \in make_candidates(candidates) })

\* Round 1 counted a ballot whose first choice is unknown to the contest.
C11_Witness ==
    /\ rounds # <<>>
    /\ RoundSum(1) > 0
    /\ \A i \in 1..Len(seq) :
           /\ Len(seq[i].choices) = 2
           /\ seq[i].choices[1] \notin make_candidates(candidates)
           /\ seq[i].choices[2] \in make_candidates(candidates)

----------------------------------------------------------------------------
\* Stream resources: properties checked under SpecStreams

\* C12 (as claimed): every reading() pass starts at the first item and, once
\* exhausted, has covered all contents of the backing store, whatever
\* happened in earlier passes.
C12_Original ==
    scope = "reading" =>
        /\ Len(yielded) <= Len(store)
        /\ yielded = SubSeq(store, 1, Len(yielded))
        /\ gen = "finished" => yielded = store

\* C13 (as claimed): entering writing() discards the prior contents before
\* the sink is yielded, so during and after the scope the backing store holds
\* exactly the items written in that scope, in order.
C13_Original ==
    (last = "writing" /\ kind # "null") => store = written

\* C14: on the null resource every attempt to open for writing fails with no
\* sink yielded, and every reading() pass yields nothing.
C14_NullResource ==
    kind = "null" =>
        /\ scope # "writing"
        /\ written = <<>>
        /\ yielded = <<>>
        /\ last = "writing" => (exc.left = "TypeError" /\ exc.by = "resource")
        /\ (scope = "reading" /\ gen = "finished") => yielded = store

\* writing() was attempted on the null resource.
C14_Witness ==
    /\ kind = "null"
    /\ last = "writing"
    /\ scope = "idle"
    /\ exc.left = "TypeError"

\* C15 (as claimed): an exception raised inside a reading() scope once an
\* item has been read leaves the scope as an exception of the same class
\* carrying the number (from 1) and the value of an item.
C15_Original ==
    (last = "reading" /\ exc.orig # "none" /\ yielded # <<>>) =>
        /\ exc.left = exc.orig
        /\ exc.positional
        /\ exc.number >= 1

----------------------------------------------------------------------------
\* normalize_ballots: properties checked under SpecNorm

\* a sorts before b in lexicographic order: they agree on the first k
\* elements, and then a ends and b goes on, or a has the smaller element.
LexBefore(a, b) ==
    \E k \in 0..Len(a) :
        /\ k <= Len(b)
        /\ \A j \in 1..k : a[j] = b[j]
        /\ \/ (k = Len(a) /\ k < Len(b))
           \/ (k < Len(a) /\ k < Len(b) /\ a[k + 1] < b[k + 1])

RECURSIVE SeqWeight(_)
SeqWeight(s) == IF s = <<>> THEN 0 ELSE Head(s).weight + SeqWeight(Tail(s))

\* C19: after normalize_ballots the target holds one ballot per distinct
\* choice sequence of the source, weighted with the sum of the weights of the
\* source ballots with that sequence, in strictly increasing lexicographic
\* order of the choice sequences.
C19_Normalized ==
    npc = "done" =>
        /\ { target[i].choices : i \in 1..Len(target) } =
               { seq[i].choices : i \in 1..Len(seq) }
        /\ \A i \in 1..(Len(target) - 1) :
               LexBefore(target[i].choices, target[i + 1].choices)
        /\ \A i \in 1..Len(target) :
               target[i].weight =
                   WeightOver({ j \in 1..Len(seq) : seq[j].choices = target[i].choices })

\* Two ballots were reordered, a proper prefix before the longer sequence.
C19_Witness ==
    /\ npc = "done"
    /\ Len(target) = 2
    /\ target[1].choices = <<1>>
    /\ target[2].choices = <<1, 2>>
    /\ seq[1].choices = <<1, 2>>

\* C20: normalize_ballots conserves the total weight and writes at most as
\* many ballots as it read.
C20_WeightConserved ==
    npc = "done" =>
        /\ SeqWeight(target) = SeqWeight(seq)
        /\ Len(target) <= Len(seq)

\* Two ballots with the same choices were merged into one.
C20_Witness ==
    /\ npc = "done"
    /\ Len(seq) = 2
    /\ Len(target) = 1
    /\ target[1].weight = 2

----------------------------------------------------------------------------
\* Tabulator.count over a failing store: property checked under SpecFail

\* C17 (as claimed): when the store raises while producing a ballot during a
\* round's read pass, the error leaving Tabulator.count is that error carrying
\* the position of the ballot at which the pass failed.
C17_Original ==
    (pc = "raised" /\ exc.by = "store") =>
        /\ error = exc.orig
        /\ exc.positional
        /\ exc.number \in 1..Len(seq)

----------------------------------------------------------------------------
\* normalize_ballots applied twice: property checked under SpecNormTwice

\* C21: normalize_ballots applied to the output of normalize_ballots writes a
\* ballot sequence identical to that output: the same ballots with the same
\* weights in the same order.
C21_Idempotent ==
    (npc = "done" /\ first.done) => target = first.output

\* The second call has returned, and the first call had merged two ballots.
C21_Witness ==
    /\ npc = "done"
    /\ first.done
    /\ Len(first.output) = 1
    /\ first.output[1].weight = 2

----------------------------------------------------------------------------
\* Tabulator.count invoked twice: property checked under SpecTwice

\* C22: two invocations of count on the same contest end the same way, with
\* identical round totals, elected lists and outcomes, and no step of count
\* changes the contest's candidates or the contents of the ballot store.
C22_Pure ==
    /\ [](( pc \in Terminal /\ first.done ) =>
            /\ error = first.error
            /\ pc = "done" => /\ rounds = first.rounds
                              /\ outcome = first.outcome)
    /\ [][candidates' = candidates /\ seq' = seq]_vars

\* The second invocation has returned after an elimination and a second round.
C22_Witness ==
    /\ pc = "done"
    /\ first.done
    /\ Len(rounds) = 2
    /\ rounds[2].elected # <<>>
    /\ Len(seq) = MaxBallots

----------------------------------------------------------------------------
\* Tabulator.count: terminal classification, checked under Spec

\* C23: when count returns, either the last round and no other round records
\* one elected candidate, who was eligible in that round, and no tie is
\* recorded, or nobody is elected and the outcome records a tied-last-place
\* set of at least two candidates eligible in the last round; never both; and
\* the recorded last round is the number of rounds produced.
C23_Classification ==
    pc = "done" =>
        LET n == Len(rounds)
            won == /\ Len(rounds[n].elected) = 1
                   /\ rounds[n].elected[1] \in DOMAIN rounds[n].totals
                   /\ rounds[n].elected[1] \in candidate_numbers
            tied == /\ Cardinality(outcome.tied_last_place) >= 2
                    /\ outcome.tied_last_place \subseteq DOMAIN rounds[n].totals
                    /\ outcome.tied_last_place \subseteq candidate_numbers
        IN  /\ n >= 1
            /\ outcome.last_round = n
            /\ \A k \in 1..(n - 1) : rounds[k].elected = <<>>
            /\ won \/ tied
            /\ won => outcome.tied_last_place = {}
            /\ tied => rounds[n].elected = <<>>

\* count returned a two-way tie for last place found in a second round.
C23_Witness ==
    /\ pc = "done"
    /\ Len(rounds) = 2
    /\ Cardinality(outcome.tied_last_place) = 2
    /\ rounds[2].elected = <<>>

----------------------------------------------------------------------------
\* Tabulator.count with count_ballots in steps: property checked under
\* SpecPasses

\* C24: count enters one reading scope on the ballots per round, never a
\* second one while one is open; the scope is left only when every ballot has
\* been read, the round result is appended as it is left, and the totals are
\* evaluated only then; whenever no pass is open the number of passes entered
\* equals the number of rounds produced.
C24_OnePassPerRound ==
    /\ [](/\ open_reads \in {0, 1}
          /\ open_reads = 1 <=> pc = "reading"
          /\ scope = "reading" <=> pc = "reading"
          /\ pc = "reading" => passes = Len(rounds) + 1
          /\ pc # "reading" => passes = Len(rounds)
          /\ pc = "evaluate" => open_reads = 0 /\ scope = "idle")
    /\ [][ /\ open_reads' < open_reads =>
                /\ fpos = Len(seq)
                /\ Len(rounds') = Len(rounds) + 1
                /\ pc' = "evaluate"
           /\ open_reads' > open_reads =>
                /\ fpos' = 0
                /\ open_reads = 0
                /\ rounds' = rounds
           /\ threshold' # threshold => open_reads = 0 ]_vars

\* The second pass is open and has read one of several ballots.
C24_Witness ==
    /\ pc = "reading"
    /\ passes = 2
    /\ Len(rounds) = 1
    /\ fpos = 1
    /\ Len(seq) >= 2

----------------------------------------------------------------------------
\* normalize_ballots in steps: property checked under SpecNormSteps

\* C25: the target is opened for writing only when the read pass over the
\* source is complete and its scope has been left; up to then, and when the
\* read pass raises, the target is not opened and keeps its contents; and
\* with one list as source and target the list ends up as the normalized form
\* of its contents at the call.
C25_WriteAfterRead ==
    /\ [](/\ npc \in {"start", "reading", "read", "raised"} => last # "writing"
          /\ npc = "raised" => scope = "idle"
          /\ (npc = "done" /\ same) =>
                /\ { target[i].choices : i \in 1..Len(target) } =
                       { seq[i].choices : i \in 1..Len(seq) }
                /\ \A i \in 1..(Len(target) - 1) :
                       LexBefore(target[i].choices, target[i + 1].choices)
                /\ \A i \in 1..Len(target) :
                       target[i].weight =
                           WeightOver({ j \in 1..Len(seq) :
                                          seq[j].choices = target[i].choices }))
    /\ [][ /\ (last' = "writing" /\ last # "writing") =>
                /\ npc = "read"
                /\ scope = "idle"
                /\ fpos = Len(source_seq)
           /\ target' # target => (npc \in {"read", "writing"} /\ scope' = "writing")
           /\ npc' = "raised" => (target' = target /\ npc = "reading") ]_vars

\* One list given as source and target was reordered in place.
C25_Witness ==
    /\ npc = "done"
    /\ same
    /\ Len(seq) = 2
    /\ Len(target) = 2
    /\ target # seq

----------------------------------------------------------------------------
\* Tabulator.count: rounds with two eligible candidates, checked under Spec

----------------------------------------------------------------------------
\* Tabulator.count before and after normalize_ballots: property checked
\* under SpecNormCount

\* C27: count over the ballots written by normalize_ballots ends as count
\* over the original ballots did: with the same error or, when it returns,
\* with the same totals and elected list in every round and the same outcome.
C27_NormalizationInvariant ==
    (pc \in Terminal /\ first.done /\ npc = "done") =>
        /\ (pc = "raised") = (first.error # "none")
        /\ error = first.error
        /\ pc = "done" =>
              /\ Len(rounds) = Len(first.rounds)
              /\ \A n \in 1..Len(rounds) :
                    /\ rounds[n].totals = first.rounds[n].totals
                    /\ rounds[n].elected = first.rounds[n].elected
              /\ outcome = first.outcome

\* The second count took two rounds over ballots that normalization had
\* merged and reordered.
C27_Witness ==
    /\ pc = "done"
    /\ first.done
    /\ Len(rounds) = 2
    /\ Len(first.output) = 3
    /\ Len(seq) = 2
    /\ seq[1] # first.output[1]

====
